---- MODULE Spec2Model ----
(***************************************************************************)
(* A model of the research assistant agent (research-agent.py,             *)
(* research_agent.py): the note-taking tools save_note / get_notes over    *)
(* the module-level list research_notes, the calculate tool, and the       *)
(* interactive loop of main() that runs one agent task after another.      *)
(*                                                                         *)
(* Text is a sequence of one-character strings, so that lower() and the    *)
(* substring test `in` are computed rather than assumed.                   *)
(***************************************************************************)
EXTENDS Integers, Sequences, FiniteSets, TLC

VARIABLES
    research_notes,   \* the module-level list research_notes
    ret,              \* the value the last tool call returned
    log,              \* history: the save_note calls so far, with the id each returned
    eval_arg,         \* history: what the last calculate call handed to eval()
    pending,          \* the tool call asked for and not yet made
    tpc,              \* per thread: where it is in save_note
    tnote,            \* per thread: the note dict it has built
    pc,               \* where main() is
    run,              \* the agent.run calls made so far
    budget,           \* the steps the current run has left
    loop,             \* the state of the current run's loop
    cycles,           \* history: the cycles of the current run
    corrected,        \* the current run has been sent a corrective note
    hist              \* history: tasks accepted, runs that raised, results and errors
                      \* printed, tool calls of the current run

noteVars == <<research_notes, ret, log>>
concVars == <<tpc, tnote>>
mainVars == <<pc, run, budget, loop, cycles, corrected, hist>>
vars == <<research_notes, ret, log, eval_arg, pending, concVars, mainVars>>

(***************************************************************************)
(* Bounds of the model.                                                    *)
(***************************************************************************)
MaxNotes == 3         \* notes saved in one session of Spec
MaxFilterNotes == 1   \* notes saved in one session of SpecFilter
MaxTopicLen == 2      \* length of a topic / filter text in SpecFilter
MaxExprLen == 4       \* length of an expression in SpecCalc
NumThreads == 2       \* threads calling save_note in SpecConc
MaxRuns == 2          \* agent.run calls in one session of SpecMain
MaxSessionNotes == 2  \* notes saved in one session of SpecMain

Threads == 1..NumThreads

(***************************************************************************)
(* Text.                                                                   *)
(***************************************************************************)
NoText == <<>>

\* The upper/lower case pairs among the letters the model's inputs use.
CasePairs == {{"a", "A"}, {"b", "B"}, {"p", "P"}}

\* str.lower() on one character (the letters the model's inputs use).
LowerChar(c) ==
    CASE c = "A" -> "a"
      [] c = "B" -> "b"
      [] c = "P" -> "p"
      [] OTHER -> c

\* str.lower(): character by character, the length kept.
Lower(s) == [i \in 1..Len(s) |-> LowerChar(s[i])]

\* Python's `sub in s` on strings: sub occurs in s as a contiguous run.
Contains(s, sub) ==
    \E k \in 0..(Len(s) - Len(sub)) :
        \A i \in 1..Len(sub) : s[k + i] = sub[i]

\* All texts over the characters cs of length at most n.
TextsUpTo(cs, n) == UNION {[1..k -> cs] : k \in 0..n}

\* A tool result carries no number.
NoVal == [k |-> "none", n |-> 0, d |-> 1, e |-> "none"]

(***************************************************************************)
(* save_note / get_notes                                                   *)
(***************************************************************************)
\* Mutant of NewNote: the id is the list's length, not the length plus one.
NewNoteZeroBased(store, topic, content, ts) ==
    [id |-> Len(store), topic |-> topic, content |-> content, timestamp |-> ts]

\* The dict save_note builds; the id is read from the list's length.
NewNote(store, topic, content, ts) ==
    [id |-> Len(store) + 1, topic |-> topic, content |-> content, timestamp |-> ts]

\* The confirmation save_note returns: "Note #<id> saved under topic '<topic>'".
SavedMsg(note) ==
    [tool |-> "save_note", kind |-> "saved", id |-> note.id, arg |-> note.topic,
     lines |-> <<>>, val |-> NoVal]

\* Mutant of FilterNotes: the topics are compared without lower().
FilterNotesCaseSensitive(store, topic) ==
    SelectSeq(store, LAMBDA n : Contains(n.topic, topic))

\* The list comprehension of get_notes.
FilterNotes(store, topic) ==
    SelectSeq(store, LAMBDA n : Contains(Lower(n.topic), Lower(topic)))

\* "Found <n> note(s):" followed by one "[id] topic: content" line per note.
FoundMsg(notes, topic) ==
    [tool |-> "get_notes", kind |-> "found", id |-> Len(notes), arg |-> topic,
     lines |-> [i \in 1..Len(notes) |->
                   <<notes[i].id, notes[i].topic, notes[i].content>>],
     val |-> NoVal]

NoNotesSavedMsg(topic) ==
    [tool |-> "get_notes", kind |-> "no_notes_saved_yet", id |-> 0, arg |-> topic,
     lines |-> <<>>, val |-> NoVal]

NoNotesForTopicMsg(topic) ==
    [tool |-> "get_notes", kind |-> "no_notes_found_for_topic", id |-> 0,
     arg |-> topic, lines |-> <<>>, val |-> NoVal]

\* Mutant of GetNotesResult: no test for an empty filtered list.
GetNotesResultNoEmptyTest(store, topic) ==
    IF store = <<>>
    THEN NoNotesSavedMsg(topic)
    ELSE IF topic # NoText
         THEN FoundMsg(SelectSeq(store, LAMBDA n : Contains(Lower(n.topic), Lower(topic))),
                       topic)
         ELSE FoundMsg(store, topic)

\* The value get_notes(topic) returns on the list `store`.
GetNotesResult(store, topic) ==
    IF store = <<>>
    THEN NoNotesSavedMsg(topic)
    ELSE IF topic # NoText
         THEN LET filtered == FilterNotes(store, topic)
              IN  IF filtered = <<>>
                  THEN NoNotesForTopicMsg(topic)
                  ELSE FoundMsg(filtered, topic)
         ELSE FoundMsg(store, topic)

\* Mutant of AppendNote: the note is put first.
PrependNote(store, note) == <<note>> \o store

\* The list after save_note's append.
AppendNote(store, note) == Append(store, note)

save_note(topic, content, ts) ==
    LET note == NewNote(research_notes, topic, content, ts)
    IN  /\ research_notes' = AppendNote(research_notes, note)
        /\ ret' = SavedMsg(note)

get_notes(topic) ==
    /\ ret' = GetNotesResult(research_notes, topic)
    /\ UNCHANGED research_notes

(***************************************************************************)
(* calculate: the character test, then Python's eval() on the expression.  *)
(* eval() is modelled on the expressions the allowed characters can spell: *)
(* number literals, ..., unary and binary + - * / // **, parentheses, the  *)
(* empty tuple () and the call syntax f(...).  A number is an exact        *)
(* fraction n/d with d > 0, marked int or float.  Python's floats round:   *)
(* 1//.1 is 9.0 there and 10 here.  Which expressions raise, and which     *)
(* exception, does not depend on the rounding.                             *)
(***************************************************************************)
NotEvaluated == <<"not evaluated">>
NoCall == <<"no call">>

\* set("0123456789+-*/.() ")
allowed_chars ==
    {"0", "1", "2", "3", "4", "5", "6", "7", "8", "9",
     "+", "-", "*", "/", ".", "(", ")", " "}

\* Mutant of AllAllowed: any() in place of all().
AnyAllowed(expression) == \E i \in 1..Len(expression) : expression[i] \in allowed_chars

\* all(c in allowed_chars for c in expression)
AllAllowed(expression) == \A i \in 1..Len(expression) : expression[i] \in allowed_chars

Digits == {"0", "1", "2", "3", "4", "5", "6", "7", "8", "9"}

DigitVal(c) ==
    CASE c = "0" -> 0 [] c = "1" -> 1 [] c = "2" -> 2 [] c = "3" -> 3 [] c = "4" -> 4
      [] c = "5" -> 5 [] c = "6" -> 6 [] c = "7" -> 7 [] c = "8" -> 8 [] c = "9" -> 9

Abs(x) == IF x < 0 THEN -x ELSE x

RECURSIVE GCD(_, _)
GCD(a, b) == IF b = 0 THEN a ELSE GCD(b, a % b)

RECURSIVE IntPow(_, _)
IntPow(b, e) == IF e = 0 THEN 1 ELSE b * IntPow(b, e - 1)

\* The fraction n/d (d # 0) in lowest terms with a positive denominator.
Num(kind, n, d) ==
    LET sn == IF d < 0 THEN -n ELSE n
        sd == Abs(d)
        g == GCD(Abs(sn), sd)
    IN  [k |-> kind, n |-> sn \div g, d |-> sd \div g, e |-> "none"]

EmptyTuple == [k |-> "tuple", n |-> 0, d |-> 1, e |-> "none"]
\* The constant Ellipsis, which three dots spell.
EllipsisVal == [k |-> "ellipsis", n |-> 0, d |-> 1, e |-> "none"]
\* A float that is no fraction (a power with a fractional exponent).
Real == [k |-> "real", n |-> 1, d |-> 1, e |-> "none"]
\* An exception raised while evaluating.
Exc(name) == [k |-> "exc", n |-> 0, d |-> 1, e |-> name]

IsNumber(v) == v.k \in {"int", "float", "real"}
\* int op int is an int, anything with a float is a float.
Joined(a, b) == IF a.k = "int" /\ b.k = "int" THEN "int" ELSE "float"

(***************************************************************************)
(* The tokenizer.                                                          *)
(***************************************************************************)
RECURSIVE DigitsVal(_)
DigitsVal(lex) ==
    IF lex = <<>> THEN 0
    ELSE DigitsVal(SubSeq(lex, 1, Len(lex) - 1)) * 10 + DigitVal(lex[Len(lex)])

\* The first position after the run of digits and dots starting at i.
RECURSIVE NumEnd(_, _)
NumEnd(s, i) ==
    IF i <= Len(s) /\ s[i] \in Digits \cup {"."} THEN NumEnd(s, i + 1) ELSE i

BadToken == [t |-> "bad", s |-> "", v |-> NoVal]
OpToken(op) == [t |-> "op", s |-> op, v |-> NoVal]

\* The token a run of digits and dots spells: a decimal integer (no leading
\* zero unless it is all zeros), a float with one dot and at least one digit,
\* or Ellipsis when the run is three dots.  Any other run with two dots or more
\* is two or more tokens side by side (or a lone dot), which no expression allows.
NumToken(lex) ==
    LET dots == {i \in 1..Len(lex) : lex[i] = "."}
    IN  IF lex = <<".", ".", ".">>
        THEN [t |-> "num", s |-> "", v |-> EllipsisVal]
        ELSE IF dots = {}
        THEN IF Len(lex) > 1 /\ lex[1] = "0" /\ \E i \in 1..Len(lex) : lex[i] # "0"
             THEN BadToken
             ELSE [t |-> "num", s |-> "", v |-> Num("int", DigitsVal(lex), 1)]
        ELSE IF Cardinality(dots) > 1 \/ Len(lex) = 1
             THEN BadToken
             ELSE LET at == CHOOSE i \in dots : TRUE
                      ds == SubSeq(lex, 1, at - 1) \o SubSeq(lex, at + 1, Len(lex))
                  IN  [t |-> "num", s |-> "",
                       v |-> Num("float", DigitsVal(ds), IntPow(10, Len(lex) - at))]

RECURSIVE Tokens(_, _)
Tokens(s, i) ==
    IF i > Len(s) THEN <<>>
    ELSE IF s[i] = " " THEN Tokens(s, i + 1)
    ELSE IF s[i] \in Digits \cup {"."}
         THEN <<NumToken(SubSeq(s, i, NumEnd(s, i) - 1))>> \o Tokens(s, NumEnd(s, i))
    ELSE IF s[i] \in {"*", "/"} /\ i < Len(s) /\ s[i + 1] = s[i]
         THEN <<OpToken(IF s[i] = "*" THEN "**" ELSE "//")>> \o Tokens(s, i + 2)
    ELSE IF s[i] \in {"+", "-", "*", "/", "(", ")"}
         THEN <<OpToken(s[i])>> \o Tokens(s, i + 1)
    ELSE <<BadToken>>

(***************************************************************************)
(* The operators.  An operand that already raised is passed on: Python     *)
(* evaluates the left operand, then the right one, then applies the        *)
(* operator.                                                               *)
(***************************************************************************)
Neg(a) ==
    IF a.k = "exc" THEN a
    ELSE IF a.k = "real" THEN Real
    ELSE IF IsNumber(a) THEN Num(a.k, -a.n, a.d)
    ELSE Exc("TypeError")

Pos(a) ==
    IF a.k = "exc" THEN a
    ELSE IF IsNumber(a) THEN a
    ELSE Exc("TypeError")

\* a ** b with b a whole number.
PowWhole(a, b) ==
    IF b.n >= 0
    THEN Num(Joined(a, b), IntPow(a.n, b.n), IntPow(a.d, b.n))
    ELSE IF a.n = 0 THEN Exc("ZeroDivisionError")
    ELSE Num("float", IntPow(a.d, -b.n), IntPow(a.n, -b.n))

BinOp(op, a, b) ==
    IF a.k = "exc" THEN a
    ELSE IF b.k = "exc" THEN b
    ELSE IF ~(IsNumber(a) /\ IsNumber(b))
         THEN IF op = "+" /\ a.k = "tuple" /\ b.k = "tuple" THEN EmptyTuple
              ELSE IF op = "*" /\ {a.k, b.k} = {"tuple", "int"} THEN EmptyTuple
              ELSE Exc("TypeError")
    ELSE IF op \in {"/", "//"} /\ b.k # "real" /\ b.n = 0 THEN Exc("ZeroDivisionError")
    ELSE IF a.k = "real" \/ b.k = "real" THEN Real
    ELSE CASE op = "+" -> Num(Joined(a, b), a.n * b.d + b.n * a.d, a.d * b.d)
           [] op = "-" -> Num(Joined(a, b), a.n * b.d - b.n * a.d, a.d * b.d)
           [] op = "*" -> Num(Joined(a, b), a.n * b.n, a.d * b.d)
           [] op = "/" -> Num("float", a.n * b.d, a.d * b.n)
           [] op = "//" ->
                  LET q == Num("int", a.n * b.d, a.d * b.n)
                  IN  Num(Joined(a, b), q.n \div q.d, 1)
           [] op = "**" ->
                  IF b.d = 1 THEN PowWhole(a, b)
                  ELSE IF a.n = 0 THEN Num("float", 0, 1)
                  ELSE Real

\* f(args): the callee and the argument are evaluated, then the call fails,
\* since a number, a tuple or Ellipsis is not callable.
Call(f, arg) ==
    IF f.k = "exc" THEN f
    ELSE IF arg.k = "exc" THEN arg
    ELSE Exc("TypeError")

(***************************************************************************)
(* The parser, evaluating as it goes.  A result is [ok, v, p]: whether the *)
(* tokens up to p - 1 are well formed, and their value.                    *)
(***************************************************************************)
\* F applied to the value of v, which is computed once: a Python local
\* variable holding an intermediate result.
With(v, F(_)) == CHOOSE y \in {F(x) : x \in {v}} : TRUE

SyntaxErr == [ok |-> FALSE, v |-> NoVal, p |-> 0]
Parsed(v, p) == [ok |-> TRUE, v |-> v, p |-> p]

IsOp(ts, p, ops) == p <= Len(ts) /\ ts[p].t = "op" /\ ts[p].s \in ops

RECURSIVE ParseArith(_, _), ArithRest(_, _), ParseTerm(_, _), TermRest(_, _),
          ParseFactor(_, _), ParsePower(_, _), ParsePrimary(_, _),
          Trailers(_, _), ParseAtom(_, _)

ParseAtom(ts, p) ==
    IF p > Len(ts) THEN SyntaxErr
    ELSE IF ts[p].t = "num" THEN Parsed(ts[p].v, p + 1)
    ELSE IF IsOp(ts, p, {"("})
         THEN IF IsOp(ts, p + 1, {")"}) THEN Parsed(EmptyTuple, p + 2)
              ELSE With(ParseArith(ts, p + 1),
                        LAMBDA r : IF r.ok /\ IsOp(ts, r.p, {")"})
                                   THEN Parsed(r.v, r.p + 1)
                                   ELSE SyntaxErr)
    ELSE SyntaxErr

\* Zero or more calls after the atom: f(), f(x), f(*x), f(**x).
Trailers(ts, r) ==
    IF ~r.ok \/ ~IsOp(ts, r.p, {"("}) THEN r
    ELSE IF IsOp(ts, r.p + 1, {")"})
         THEN With(Parsed(Call(r.v, NoVal), r.p + 2), LAMBDA c : Trailers(ts, c))
    ELSE LET from == IF IsOp(ts, r.p + 1, {"*", "**"}) THEN r.p + 2 ELSE r.p + 1
         IN  With(ParseArith(ts, from),
                  LAMBDA a : IF a.ok /\ IsOp(ts, a.p, {")"})
                             THEN With(Parsed(Call(r.v, a.v), a.p + 1),
                                       LAMBDA c : Trailers(ts, c))
                             ELSE SyntaxErr)

ParsePrimary(ts, p) == With(ParseAtom(ts, p), LAMBDA a : Trailers(ts, a))

ParsePower(ts, p) ==
    With(ParsePrimary(ts, p),
         LAMBDA b : IF b.ok /\ IsOp(ts, b.p, {"**"})
                    THEN With(ParseFactor(ts, b.p + 1),
                              LAMBDA x : IF x.ok
                                         THEN Parsed(BinOp("**", b.v, x.v), x.p)
                                         ELSE SyntaxErr)
                    ELSE b)

ParseFactor(ts, p) ==
    IF IsOp(ts, p, {"+", "-"})
    THEN With(ParseFactor(ts, p + 1),
              LAMBDA r : IF r.ok
                         THEN Parsed(IF ts[p].s = "-" THEN Neg(r.v) ELSE Pos(r.v), r.p)
                         ELSE SyntaxErr)
    ELSE ParsePower(ts, p)

TermRest(ts, l) ==
    IF l.ok /\ IsOp(ts, l.p, {"*", "/", "//"})
    THEN With(ParseFactor(ts, l.p + 1),
              LAMBDA r : IF r.ok
                         THEN With(Parsed(BinOp(ts[l.p].s, l.v, r.v), r.p),
                                   LAMBDA n : TermRest(ts, n))
                         ELSE SyntaxErr)
    ELSE l

ParseTerm(ts, p) == With(ParseFactor(ts, p), LAMBDA l : TermRest(ts, l))

ArithRest(ts, l) ==
    IF l.ok /\ IsOp(ts, l.p, {"+", "-"})
    THEN With(ParseTerm(ts, l.p + 1),
              LAMBDA r : IF r.ok
                         THEN With(Parsed(BinOp(ts[l.p].s, l.v, r.v), r.p),
                                   LAMBDA n : ArithRest(ts, n))
                         ELSE SyntaxErr)
    ELSE l

ParseArith(ts, p) == With(ParseTerm(ts, p), LAMBDA l : ArithRest(ts, l))

\* eval(expression): the value, or the exception raised.  A syntax error is
\* found by the compiler, before anything is evaluated.
PyEval(expression) ==
    With(Tokens(expression, 1),
         LAMBDA ts :
             With(ParseArith(ts, 1),
                  LAMBDA r : IF \/ \E i \in 1..Len(ts) : ts[i].t = "bad"
                                \/ ~r.ok
                                \/ r.p # Len(ts) + 1
                             THEN Exc("SyntaxError")
                             ELSE r.v))

\* Mutant of ExceptionClasses: `except ZeroDivisionError`.
OnlyZeroDivisionError == {"ZeroDivisionError"}

\* The exceptions `except Exception` catches, among those eval() raises here.
ExceptionClasses == {"SyntaxError", "ZeroDivisionError", "TypeError"}

CalcMsg(kind, expression, v) ==
    [tool |-> "calculate", kind |-> kind, id |-> 0, arg |-> expression,
     lines |-> <<>>, val |-> v]

\* What calculate(expression) returns; kind "raised" is an exception that
\* leaves calculate.
CalculateResult(expression) ==
    IF ~AllAllowed(expression)
    THEN CalcMsg("error_only_basic_math", expression, NoVal)
    ELSE With(PyEval(expression),
              LAMBDA result :
                  IF result.k = "exc"
                  THEN IF result.e \in ExceptionClasses
                       THEN CalcMsg("error_calculating", expression, result)
                       ELSE CalcMsg("raised", expression, result)
                  ELSE CalcMsg("value", expression, result))

calculate(expression) ==
    /\ ret' = CalculateResult(expression)
    /\ eval_arg' = IF AllAllowed(expression) THEN expression ELSE NotEvaluated
    /\ UNCHANGED research_notes

(***************************************************************************)
(* Inputs of the note tools.                                               *)
(***************************************************************************)
pricing == <<"p", "r", "i", "c", "i", "n", "g">>
unrelated == <<"u", "n", "r", "e", "l", "a", "t", "e", "d">>
NoteTopics == {pricing, <<"P", "r", "i", "c", "e">>, NoText}
QueryTopics == {NoText, pricing, unrelated, <<"p", "r", "i", "c">>}
Contents == {"X costs $10", ""}
Timestamps == {"t1", "t2"}
TopicChars == {"a", "A", "b"}

NoRet ==
    [tool |-> "none", kind |-> "none", id |-> 0, arg |-> NoText, lines |-> <<>>,
     val |-> NoVal]

\* The history entry of one save_note call: its arguments, the id its
\* confirmation names, and the agent run that made the call (0: no run).
LogEntry(topic, content, msg, r) ==
    [topic |-> topic, content |-> content, id |-> msg.id, run |-> r]

\* The history of a save_note(topic, content) call made by run r.
Logged(topic, content, ts, r) ==
    log' = Append(log, LogEntry(topic, content,
                                SavedMsg(NewNote(research_notes, topic, content, ts)), r))

NoNote == [id |-> 0, topic |-> NoText, content |-> "", timestamp |-> ""]

\* The state when the module has been loaded (research_notes = []), with the
\* tool call `call` asked for.
Loaded(call) ==
    /\ research_notes = <<>>
    /\ ret = NoRet
    /\ log = <<>>
    /\ eval_arg = NotEvaluated
    /\ pending = call
    /\ tpc = [t \in Threads |-> "idle"]
    /\ tnote = [t \in Threads |-> NoNote]
    /\ pc = "input"
    /\ run = 0
    /\ budget = 0
    /\ loop = "NONE"
    /\ cycles = 0
    /\ corrected = FALSE
    /\ hist = [tasks |-> 0, raised |-> 0, results |-> 0, errors |-> 0, calls |-> 0]

Init == Loaded(NoCall)

(***************************************************************************)
(* Spec: one caller making save_note and get_notes calls in any order.     *)
(***************************************************************************)
SaveStep ==
    /\ Len(research_notes) < MaxNotes
    /\ \E t \in NoteTopics, c \in Contents, ts \in Timestamps :
           /\ save_note(t, c, ts)
           /\ Logged(t, c, ts, 0)
    /\ UNCHANGED <<eval_arg, pending, concVars, mainVars>>

GetStep ==
    /\ \E t \in QueryTopics : get_notes(t)
    /\ UNCHANGED <<log, eval_arg, pending, concVars, mainVars>>

Next == SaveStep \/ GetStep

Spec == Init /\ [][Next]_vars

(***************************************************************************)
(* SpecFilter: the same two tools, with every topic and every filter over  *)
(* TopicChars up to MaxTopicLen.                                           *)
(***************************************************************************)
FilterTexts == TextsUpTo(TopicChars, MaxTopicLen)

FilterSaveStep ==
    /\ Len(research_notes) < MaxFilterNotes
    /\ \E t \in FilterTexts :
           /\ save_note(t, "c", "t1")
           /\ Logged(t, "c", "t1", 0)
    /\ UNCHANGED <<eval_arg, pending, concVars, mainVars>>

FilterGetStep ==
    /\ \E t \in FilterTexts : get_notes(t)
    /\ UNCHANGED <<log, eval_arg, pending, concVars, mainVars>>

NextFilter == FilterSaveStep \/ FilterGetStep

SpecFilter == Init /\ [][NextFilter]_vars

(***************************************************************************)
(* SpecCalc: calculate on every expression over ExprChars up to MaxExprLen.*)
(***************************************************************************)
ExprChars == {"0", "1", "2", "+", "-", "*", "/", ".", "(", ")", " ", "D"}

\* One calculate call per behaviour: the expression is chosen at the start.
InitCalc == \E x \in TextsUpTo(ExprChars, MaxExprLen) : Loaded(<<"calculate", x>>)

CalcStep ==
    /\ pending # NoCall
    /\ pending[1] = "calculate"
    /\ calculate(pending[2])
    /\ pending' = NoCall
    /\ UNCHANGED <<log, concVars, mainVars>>

NextCalc == CalcStep

SpecCalc == InitCalc /\ [][NextCalc]_vars

(***************************************************************************)
(* SpecConc: save_note called from several threads on the one list.  The   *)
(* interpreter may switch threads between the evaluation of                *)
(* len(research_notes) + 1 (the dict is built) and research_notes.append.  *)
(***************************************************************************)
\* Lines 42-47: the note is built from the list as it is now.
BuildNote(t) ==
    /\ tpc[t] = "idle"
    /\ \E c \in Contents :
           tnote' = [tnote EXCEPT ![t] = NewNote(research_notes, pricing, c, "t1")]
    /\ tpc' = [tpc EXCEPT ![t] = "built"]
    /\ UNCHANGED <<research_notes, ret, log, eval_arg, pending, mainVars>>

\* Lines 48-49: the append, and the confirmation.
AppendBuilt(t) ==
    /\ tpc[t] = "built"
    /\ research_notes' = AppendNote(research_notes, tnote[t])
    /\ ret' = SavedMsg(tnote[t])
    /\ log' = Append(log, LogEntry(tnote[t].topic, tnote[t].content, SavedMsg(tnote[t]), t))
    /\ tpc' = [tpc EXCEPT ![t] = "idle"]
    /\ tnote' = [tnote EXCEPT ![t] = NoNote]
    /\ UNCHANGED <<eval_arg, pending, mainVars>>

\* The calls begun so far: the notes appended and the notes built.
Begun == Len(research_notes) + Cardinality({t \in Threads : tpc[t] = "built"})

ConcBuildStep == Begun < MaxNotes /\ \E t \in Threads : BuildNote(t)

ConcAppendStep == \E t \in Threads : AppendBuilt(t)

NextConc == ConcBuildStep \/ ConcAppendStep

SpecConc == Init /\ [][NextConc]_vars

(***************************************************************************)
(* SpecMain: the interactive loop of main(), one agent.run(task) after     *)
(* another on the one research_notes list.  agent.run is the library's     *)
(* CodeAgent; its loop is modelled from the AgentLoop of the design        *)
(* document: a step budget of max_steps, a model that answers each call    *)
(* with a tool call, a final answer, a malformed response or a failure.    *)
(***************************************************************************)
max_steps == 10

\* The tool calls the model asks for.
MainCalls ==
    {<<"save_note", pricing, "X costs $10">>, <<"get_notes", NoText, "">>,
     <<"calculate", <<"1", "/", "0">>, "">>, <<"web_search", NoText, "">>}

\* DuckDuckGoSearchTool: an external tool, its result a text.
SearchMsg(query) ==
    [tool |-> "web_search", kind |-> "results", id |-> 0, arg |-> query,
     lines |-> <<>>, val |-> NoVal]

\* The tool named by the call, called with the call's arguments.
ToolCall(call) ==
    \/ /\ call[1] = "save_note"
       /\ save_note(call[2], call[3], "t1")
       /\ Logged(call[2], call[3], "t1", run)
       /\ UNCHANGED eval_arg
    \/ /\ call[1] = "get_notes"
       /\ get_notes(call[2])
       /\ UNCHANGED <<log, eval_arg>>
    \/ /\ call[1] = "calculate"
       /\ calculate(call[2])
       /\ UNCHANGED log
    \/ /\ call[1] = "web_search"
       /\ ret' = SearchMsg(call[2])
       /\ UNCHANGED <<research_notes, log, eval_arg>>

\* AgentLoop, rule 1: the run starts awaiting the model, with a full budget.
AgentRunStart ==
    /\ budget' = max_steps
    /\ loop' = "AWAITING_MODEL"
    /\ cycles' = 0
    /\ corrected' = FALSE

\* Rule 2: no budget left: the run stops and returns what it has.
BudgetExhausted ==
    /\ pc = "running" /\ loop = "AWAITING_MODEL"
    /\ budget = 0
    /\ loop' = "BUDGET_EXHAUSTED"
    /\ pc' = "returned"
    /\ UNCHANGED <<noteVars, eval_arg, pending, concVars, run, budget, cycles,
                   corrected, hist>>

\* Rules 3, 4: the model names a tool.
ModelAsksTool(call) ==
    /\ pc = "running" /\ loop = "AWAITING_MODEL"
    /\ budget > 0
    /\ pending' = call
    /\ loop' = "AWAITING_TOOL_RESULT"
    /\ corrected' = FALSE
    /\ UNCHANGED <<noteVars, eval_arg, concVars, pc, run, budget, cycles, hist>>

\* Mutant of ToolInvoke: the budget is not decremented.
ToolInvokeBudgetKept ==
    /\ pc = "running" /\ loop = "AWAITING_TOOL_RESULT"
    /\ ToolCall(pending)
    /\ pending' = NoCall
    /\ cycles' = IF cycles < max_steps + 1 THEN cycles + 1 ELSE cycles
    /\ loop' = "AWAITING_MODEL"
    /\ hist' = [hist EXCEPT !.calls = IF @ < max_steps + 1 THEN @ + 1 ELSE @]
    /\ UNCHANGED <<concVars, pc, run, budget, corrected>>

\* Rule 4: the tool is invoked, its result is the observation, and the cycle
\* is counted.
ToolInvoke ==
    /\ pc = "running" /\ loop = "AWAITING_TOOL_RESULT"
    /\ ToolCall(pending)
    /\ pending' = NoCall
    /\ budget' = budget - 1
    /\ cycles' = cycles + 1
    /\ loop' = "AWAITING_MODEL"
    /\ hist' = [hist EXCEPT !.calls = @ + 1]
    /\ UNCHANGED <<concVars, pc, run, corrected>>

\* Rule 5: the model gives its final answer.
ModelAnswers ==
    /\ pc = "running" /\ loop = "AWAITING_MODEL"
    /\ budget > 0
    /\ loop' = "DONE"
    /\ pc' = "returned"
    /\ UNCHANGED <<noteVars, eval_arg, pending, concVars, run, budget, cycles,
                   corrected, hist>>

\* A malformed response: a corrective note and a retry; the first in a row
\* is free, the following ones are counted against the budget.
ModelMalformed ==
    /\ pc = "running" /\ loop = "AWAITING_MODEL"
    /\ budget > 0
    /\ corrected' = TRUE
    /\ budget' = IF corrected THEN budget - 1 ELSE budget
    /\ cycles' = IF corrected THEN cycles + 1 ELSE cycles
    /\ UNCHANGED <<noteVars, eval_arg, pending, concVars, pc, run, loop, hist>>

\* The model collaborator fails (provider failure, timeout): the run raises.
ModelFails ==
    /\ pc = "running" /\ loop = "AWAITING_MODEL"
    /\ budget > 0
    /\ loop' = "FAILED"
    /\ pc' = "raised"
    /\ hist' = [hist EXCEPT !.raised = @ + 1]
    /\ UNCHANGED <<noteVars, eval_arg, pending, concVars, run, budget, cycles,
                   corrected>>

\* input() gives quit, exit or q: the loop is left.
ReadQuit ==
    /\ pc = "input"
    /\ pc' = "exited"
    /\ UNCHANGED <<noteVars, eval_arg, pending, concVars, run, budget, loop, cycles,
                   corrected, hist>>

\* input() gives an empty line: `continue`.
ReadEmpty ==
    /\ pc = "input"
    /\ UNCHANGED vars

\* Mutant of RunTask: every run starts on an empty list of its own.
RunTaskFreshStore ==
    /\ pc = "input"
    /\ pc' = "running"
    /\ run' = run + 1
    /\ hist' = [hist EXCEPT !.tasks = @ + 1, !.calls = 0]
    /\ AgentRunStart
    /\ research_notes' = <<>>
    /\ UNCHANGED <<ret, log, eval_arg, pending, concVars>>

\* input() gives a task (or an example's number): agent.run(task) is called.
RunTask ==
    /\ pc = "input"
    /\ pc' = "running"
    /\ run' = run + 1
    /\ hist' = [hist EXCEPT !.tasks = @ + 1, !.calls = 0]
    /\ AgentRunStart
    /\ UNCHANGED <<noteVars, eval_arg, pending, concVars>>

\* agent.run returned: the result is printed.
PrintResult ==
    /\ pc = "returned"
    /\ pc' = "show_notes"
    /\ hist' = [hist EXCEPT !.results = @ + 1]
    /\ UNCHANGED <<noteVars, eval_arg, pending, concVars, run, budget, loop, cycles,
                   corrected>>

\* Mutant of PrintError: no try/except around agent.run: the exception ends
\* main().
PrintErrorUncaught ==
    /\ pc = "raised"
    /\ pc' = "exited"
    /\ UNCHANGED <<noteVars, eval_arg, pending, concVars, run, budget, loop, cycles,
                   corrected, hist>>

\* except Exception as e: the error is printed.
PrintError ==
    /\ pc = "raised"
    /\ pc' = "show_notes"
    /\ hist' = [hist EXCEPT !.errors = @ + 1]
    /\ UNCHANGED <<noteVars, eval_arg, pending, concVars, run, budget, loop, cycles,
                   corrected>>

\* The notes saved this session are listed, and the loop asks for the next task.
ShowNotes ==
    /\ pc = "show_notes"
    /\ pc' = "input"
    /\ UNCHANGED <<noteVars, eval_arg, pending, concVars, run, budget, loop, cycles,
                   corrected, hist>>

AskStep ==
    \E call \in MainCalls :
        /\ call[1] = "save_note" => Len(research_notes) < MaxSessionNotes
        /\ ModelAsksTool(call)

AgentStep ==
    \/ BudgetExhausted
    \/ AskStep
    \/ ToolInvoke
    \/ ModelAnswers
    \/ ModelMalformed
    \/ ModelFails

MainStep ==
    \/ ReadQuit
    \/ ReadEmpty
    \/ run < MaxRuns /\ RunTask
    \/ PrintResult
    \/ PrintError
    \/ ShowNotes

NextMain == AgentStep \/ MainStep

SpecMain == Init /\ [][NextMain]_vars

(***************************************************************************)
(* What the claims are stated with.                                        *)
(***************************************************************************)
\* c and d are the same letter, case ignored.
SameLetter(c, d) == c = d \/ {c, d} \in CasePairs

\* sub occurs in s as a contiguous run, case ignored.
ContainsCI(s, sub) ==
    \E k \in 0..(Len(s) - Len(sub)) :
        \A i \in 1..Len(sub) : SameLetter(s[k + i], sub[i])

\* The positions of the stored notes whose topic contains f, case ignored.
Matching(f) == {i \in 1..Len(research_notes) : ContainsCI(research_notes[i].topic, f)}

\* The notes at the positions P, in the order of the list, as get_notes shows them.
RECURSIVE ShownFrom(_, _)
ShownFrom(i, P) ==
    IF i > Len(research_notes) THEN <<>>
    ELSE (IF i \in P
          THEN <<<<research_notes[i].id, research_notes[i].topic,
                   research_notes[i].content>>>>
          ELSE <<>>) \o ShownFrom(i + 1, P)

NoNotesKinds == {"no_notes_saved_yet", "no_notes_found_for_topic"}

\* C1: starting from the empty list, the k-th save_note call is given id k and
\* is stored k-th with its own arguments, and get_notes("") shows every saved
\* note in the order of the calls.
C1_IdsInCallOrder ==
    /\ Len(log) = Len(research_notes)
    /\ \A k \in 1..Len(log) :
           /\ log[k].id = k
           /\ research_notes[k].id = k
           /\ research_notes[k].topic = log[k].topic
           /\ research_notes[k].content = log[k].content
    /\ (ret.tool = "get_notes" /\ ret.arg = NoText /\ log # <<>>) =>
           /\ ret.kind = "found"
           /\ ret.lines = [k \in 1..Len(log) |-> <<k, log[k].topic, log[k].content>>]

C1_Witness ==
    /\ Len(log) = MaxNotes
    /\ ret.tool = "get_notes" /\ ret.arg = NoText
    /\ Len(ret.lines) = MaxNotes

C8_NoNotesIndicator ==
    ret.tool = "get_notes" =>
        /\ ret.kind \in NoNotesKinds \cup {"found"}
        /\ (ret.kind \in NoNotesKinds <=> Matching(ret.arg) = {})
        /\ (ret.kind = "found" => ret.lines # <<>>)
        /\ (/\ Len(research_notes) = 1
            /\ research_notes[1].topic = pricing
            /\ research_notes[1].content = "X costs $10") =>
               /\ (ret.arg = pricing =>
                      ret.kind = "found" /\ ret.lines = <<<<1, pricing, "X costs $10">>>>)
               /\ (ret.arg = unrelated => ret.kind = "no_notes_found_for_topic")

C8_Witness ==
    /\ Len(research_notes) = 1
    /\ research_notes[1].topic = pricing
    /\ research_notes[1].content = "X costs $10"
    /\ ret.tool = "get_notes" /\ ret.arg = unrelated
    /\ ret.kind = "no_notes_found_for_topic"

\* C9: the list is append-only: a step keeps every stored note as it is and
\* where it is, a save_note adds exactly one note at the end, and a get_notes
\* leaves the list as it was.
C9_AppendOnly ==
    [][/\ Len(research_notes') >= Len(research_notes)
       /\ \A i \in 1..Len(research_notes) : research_notes'[i] = research_notes[i]
       /\ (ret'.tool = "save_note" => Len(research_notes') = Len(research_notes) + 1)
       /\ (ret'.tool = "get_notes" => research_notes' = research_notes)]_vars

\* The characters the claim lists: 0-9 + - * / . ( ) and the space.
ClaimChars ==
    {"0", "1", "2", "3", "4", "5", "6", "7", "8", "9"} \cup
    {"+", "-", "*", "/", ".", "(", ")"} \cup {" "}

HasDisallowed(x) == \E i \in 1..Len(x) : x[i] \notin ClaimChars

\* C6: calculate answers an expression with the only-basic-math error exactly
\* when it holds a character outside 0-9 + - * / . ( ) and space, and then
\* eval() is not called; every other expression is handed to eval() as it is.
C6_CharacterGate ==
    ret.tool = "calculate" =>
        /\ (HasDisallowed(ret.arg) <=> ret.kind = "error_only_basic_math")
        /\ (HasDisallowed(ret.arg) => eval_arg = NotEvaluated)
        /\ (~HasDisallowed(ret.arg) => eval_arg = ret.arg)

C6_Witness ==
    /\ ret.tool = "calculate"
    /\ ret.arg = <<"1", "+", "D">>
    /\ ret.kind = "error_only_basic_math"
    /\ eval_arg = NotEvaluated

\* C7: calculate always returns a text and lets no exception out: an admitted
\* expression whose evaluation fails ("1/0", "1/") yields "Error calculating:"
\* with the exception's message.
C7_NeverPropagates ==
    ret.tool = "calculate" =>
        /\ ret.kind \in {"value", "error_only_basic_math", "error_calculating"}
        /\ (eval_arg # NotEvaluated /\ PyEval(eval_arg).k = "exc" =>
               ret.kind = "error_calculating" /\ ret.val = PyEval(eval_arg))
        /\ (ret.arg = <<"1", "/", "0">> =>
               ret.kind = "error_calculating" /\ ret.val.e = "ZeroDivisionError")
        /\ (ret.arg = <<"1", "/">> =>
               ret.kind = "error_calculating" /\ ret.val.e = "SyntaxError")

C7_Witness ==
    /\ ret.tool = "calculate"
    /\ ret.arg = <<"1", "/", "0">>
    /\ ret.kind = "error_calculating"
    /\ ret.val.e = "ZeroDivisionError"

\* C5: with save_note called from several threads on the one list, the ids of
\* the stored notes are 1, 2, 3, ... in the order of the list.
C5_IdsDenseUnderConcurrency ==
    \A i \in 1..Len(research_notes) : research_notes[i].id = i

\* What a running run has left to do: every step of a run lowers it.
Remaining ==
    4 * budget + (IF loop = "AWAITING_TOOL_RESULT" THEN 1
                  ELSE IF corrected THEN 2 ELSE 3)

RetOfThisRun == hist.calls > 0

\* The notes saved up to the k-th by the run that saved the k-th.
SavedByRunUpTo(k) == {j \in 1..k : log[j].run = log[k].run}

\* C4 as claimed: get_notes shows only notes saved in the run that calls it,
\* and a run's ids start at 1 whatever the other runs saved.
C4_NotSharedAcrossRuns ==
    /\ (RetOfThisRun /\ ret.tool = "get_notes") =>
           \A i \in 1..Len(ret.lines) : log[ret.lines[i][1]].run = run
    /\ \A k \in 1..Len(log) : log[k].id = Cardinality(SavedByRunUpTo(k))

\* C4, amended: research_notes is one list for the whole session: no run
\* empties it, the ids go on from the notes of the earlier runs, and
\* get_notes("") in any run shows the notes of every run so far.
C4_SharedAcrossSession ==
    /\ Len(research_notes) = Len(log)
    /\ \A k \in 1..Len(log) : log[k].id = k /\ research_notes[k].id = k
    /\ (RetOfThisRun /\ ret.tool = "get_notes" /\ ret.arg = NoText /\ log # <<>>) =>
           ret.lines = [k \in 1..Len(log) |-> <<k, log[k].topic, log[k].content>>]

\* In the second run, get_notes shows the first run's note and the second
\* run's note, numbered 1 and 2.
C4_Witness ==
    /\ run = 2 /\ pc = "running"
    /\ RetOfThisRun /\ ret.tool = "get_notes"
    /\ Len(ret.lines) = 2
    /\ log[1].run = 1 /\ log[2].run = 2
    /\ ret.lines[2][1] = 2

\* C10: a run that raises is answered by one printed error, the task is not
\* run again, the notes are as the run left them, and the loop is back at its
\* prompt, where the next task is run.
C10_ErrorSurfacedOnce ==
    /\ [](hist.tasks = run)
    /\ [](hist.errors + (IF pc = "raised" THEN 1 ELSE 0) = hist.raised)
    /\ [][pc = "raised" =>
             /\ pc' = "show_notes"
             /\ hist'.errors = hist.errors + 1
             /\ run' = run
             /\ research_notes' = research_notes]_vars
    /\ [][pc = "show_notes" => pc' = "input" /\ research_notes' = research_notes]_vars
    /\ [](pc = "input" /\ run < MaxRuns => ENABLED RunTask)

\* After a run that saved a note and then raised, the next task is running.
C10_Witness ==
    /\ run = 2 /\ pc = "running"
    /\ hist.errors = 1 /\ hist.raised = 1
    /\ Len(research_notes) >= 1
    /\ log[1].run = 1

C9_Witness ==
    /\ Len(research_notes) = 2
    /\ research_notes[1].topic # research_notes[2].topic
    /\ ret.tool = "get_notes" /\ ret.kind = "found"

====
